---- MODULE Spec2Model ----
(***************************************************************************)
(* Model of the kp CLI command core:                                       *)
(*   - commands.CommandHelper (execution modes and output routing)         *)
(*   - clusterbuilder.NewPatchCommand (the cluster builder patch command)  *)
(*                                                                         *)
(* Text is a sequence of tokens; a stream is the sequence of the chunks    *)
(* written to it, each chunk [kind, data] with data a sequence of strings. *)
(***************************************************************************)
EXTENDS Naturals, Sequences, FiniteSets, TLC

VARIABLES
    \* ---- CommandHelper ----
    hpc,        \* "new" before NewCommandHelper, then "ready" or "failed"
    dryRun,     \* CommandHelper.dryRun
    output,     \* CommandHelper.output
    wait,       \* CommandHelper.wait
    strBuilder, \* CommandHelper.strBuilder (tokens held by the helper's builder)
    outWriter,  \* chunks written to CommandHelper.outWriter
    errWriter,  \* chunks written to CommandHelper.errWriter
    objs,       \* the runtime.Objects handed to the helper: id -> [type, gvk]
    last,       \* what the last helper call did
    ncalls,     \* number of helper calls made so far
    waited,     \* the convergence waiter has been invoked
    \* ---- cluster builder patch command ----
    pc,         \* "start", "run" (flags and args accepted), "done"
    args,       \* positional arguments
    flagv,      \* values of the stack, store and order flag variables
    passed,     \* names of the flags given on the command line
    calls,      \* log of the remote calls, in order
    payloads,   \* the payload of each Patch call, in order
    stdout,     \* lines written to cmd.OutOrStdout()
    err,        \* the error the invocation ended with ("" is nil)
    ccb,        \* the observed object as it is when the invocation ends
    ccb0,       \* the object Get returned
    patchedCcb, \* the desired copy
    env         \* the errors the remote side answered with in this invocation

hvars == <<hpc, dryRun, output, wait, strBuilder, outWriter, errWriter, objs,
           last, ncalls, waited>>
pvars == <<pc, args, flagv, passed, calls, payloads, stdout, err, ccb, ccb0,
           patchedCcb, env>>
vars == <<hvars, pvars>>

\* Bounds of the model.
MaxCalls == 2
MaxObjs == 2

NoErr == ""
ErrUnknownType == "failed to output. unknown type"
ErrPrint == "print object error"
ErrPrinterFormat == "unsupported output format"

----------------------------------------------------------------------------
\* Flags of a cobra command: the declared names, the names the user set,
\* and the value of each.
getBoolFlag(name, cmd) ==
    IF name \notin cmd.declared THEN FALSE
    ELSE IF name \notin cmd.changed THEN FALSE
    ELSE cmd.val[name]

getStringFlag(name, cmd) ==
    IF name \notin cmd.declared THEN ""
    ELSE IF name \notin cmd.changed THEN ""
    ELSE cmd.val[name]

\* k8s.NewObjectPrinter: an error for a format it does not know.
NewObjectPrinter(format) ==
    IF format \in {"yaml", "json"} THEN NoErr ELSE ErrPrinterFormat

\* The fields NewCommandHelper gives the helper, or an error.
NewCommandHelper(cmd) ==
    LET dr == getBoolFlag("dry-run", cmd)
        out == getStringFlag("output", cmd)
        w == getBoolFlag("wait", cmd)
        outputResource == out # ""
        perr == IF outputResource THEN NewObjectPrinter(out) ELSE NoErr
    IN  [err |-> perr, dryRun |-> dr, output |-> outputResource, wait |-> w]

\* The commands the helper is built from: each flag undeclared, declared
\* and left alone, or set by the user.
BoolFlagCases == {"undeclared", "unchanged", "true", "false"}
StringFlagCases == {"undeclared", "unchanged", "", "yaml", "json", "xml"}

MkCmd(d, o, w) ==
    [declared |-> {n \in {"dry-run"} : d # "undeclared"}
                  \cup {n \in {"output"} : o # "undeclared"}
                  \cup {n \in {"wait"} : w # "undeclared"},
     changed |-> {n \in {"dry-run"} : d \in {"true", "false"}}
                 \cup {n \in {"output"} : o \notin {"undeclared", "unchanged"}}
                 \cup {n \in {"wait"} : w \in {"true", "false"}},
     val |-> [n \in {"dry-run", "output", "wait"} |->
                IF n = "dry-run" THEN d = "true"
                ELSE IF n = "wait" THEN w = "true"
                ELSE IF o \in {"undeclared", "unchanged"} THEN "" ELSE o]]

----------------------------------------------------------------------------
\* ShouldWait with a fault: output mode forgotten.
ShouldWaitIgnoringOutput == wait /\ ~dryRun

IsDryRun == dryRun

ShouldWait == wait /\ ~dryRun /\ ~output

\* OutOrDiscardWriter with a fault: the result line always goes to outWriter.
OutAlways == "out"

\* The writers, by name: "out", "err", "discard".
OutOrErrWriter == IF output THEN "err" ELSE "out"

OutOrDiscardWriter == IF output THEN "discard" ELSE "out"

Writer == OutOrErrWriter

DryRunSuffix == " (dry run)"

\* printDryRun with a fault: the suffix is appended whatever dryRun is.
printDryRunAlwaysSuffix(str) == <<str, DryRunSuffix, "\n">>

\* The bytes printDryRun hands to its writer. The receiver is a value, so
\* the builder used is a copy of the helper's; it is reset first.
printDryRun(str) ==
    LET b0 == strBuilder
        b1 == SubSeq(b0, 1, 0)
        b2 == b1 \o <<str>>
        b3 == IF dryRun THEN b2 \o <<DryRunSuffix>> ELSE b2
    IN  b3 \o <<"\n">>

\* fmt.Fprintf(w, format+"\n", args...)
PrintlnfText(str) == <<str, "\n">>

TextChunk(line) == [kind |-> "text", data |-> line]

----------------------------------------------------------------------------
\* Identities: <<group, version, kind>>.
v1GroupName == ""
buildGroupName == "build.GroupName"

KnownTypes == {"Secret", "ServiceAccount", "Image", "Builder", "ClusterStack",
               "ClusterStore", "ClusterBuilder"}

getTypeToGVKLookup ==
    [t \in KnownTypes |->
        IF t \in {"Secret", "ServiceAccount"} THEN <<v1GroupName, "v1", t>>
        ELSE <<buildGroupName, "v1alpha1", t>>]

EmptyGVK == <<"", "", "">>

ObjIds == {"a", "b", "c"}

\* a: a registered type whose identity is empty, or lacks its kind;
\* b: an unregistered type whose identity is empty; c: an unregistered type
\* whose identity is set.
ObjPool(aGVK) ==
    [o \in ObjIds |->
        CASE o = "a" -> [type |-> "Image", gvk |-> aGVK]
          [] o = "b" -> [type |-> "ConfigMap", gvk |-> EmptyGVK]
          [] OTHER   -> [type |-> "Pod", gvk |-> <<"", "v1", "Pod">>]]

InitObjs == {ObjPool(g) : g \in {EmptyGVK, <<buildGroupName, "v1alpha1", "">>}}

ObjChunk(o, gvk) == [kind |-> "obj", data |-> <<o>> \o gvk]

\* k8s.ObjectPrinter.PrintObject: the object serialized to the writer with
\* the identity it carries, or an error and nothing written.
PrintObject(o, gvk, fails) ==
    IF fails THEN [chunks |-> <<>>, err |-> ErrPrint]
    ELSE [chunks |-> <<ObjChunk(o, gvk)>>, err |-> NoErr]

\* obj.GetObjectKind().SetGroupVersionKind(gvk)
SetGroupVersionKind(st, o, gvk) == [st EXCEPT ![o].gvk = gvk]

\* Restore with a fault: the stamped identity is left on the object.
RestoreSkipped(st, o, oGVK) == st

\* The identity the object had on entry is put back after printing.
Restore(st, o, oGVK) == SetGroupVersionKind(st, o, oGVK)

\* The identity is looked up when the object carries no version or no kind.
NeedsLookup(gvk) == gvk[2] = "" \/ gvk[3] = ""

\* PrintObj on object o of the objects st; fails: the printer fails.
\* Gives the objects afterwards, the chunks written to outWriter, the
\* error returned and the objects looked up in typeToGVK.
PrintObj(st, o, fails) ==
    IF ~output THEN [objs |-> st, chunks |-> <<>>, err |-> NoErr, looked |-> {}]
    ELSE
    LET oGVK == st[o].gvk
        need == NeedsLookup(oGVK)
        ok == st[o].type \in DOMAIN getTypeToGVKLookup
    IN  IF need /\ ~ok
        THEN [objs |-> st, chunks |-> <<>>, err |-> ErrUnknownType,
              looked |-> {o}]
        ELSE
        LET st1 == IF need
                   THEN SetGroupVersionKind(st, o, getTypeToGVKLookup[st[o].type])
                   ELSE st
            r == PrintObject(o, st1[o].gvk, fails)
            st2 == Restore(st1, o, oGVK)
        IN  [objs |-> st2, chunks |-> r.chunks, err |-> r.err,
             looked |-> IF need THEN {o} ELSE {}]

\* PrintObjs: PrintObj on each object in turn, stopping at the first error.
\* failAt: the position at which the printer fails (0: nowhere).
RECURSIVE PrintObjsFrom(_, _, _, _, _, _)
PrintObjsFrom(st, list, i, failAt, chunks, looked) ==
    IF i > Len(list)
    THEN [objs |-> st, chunks |-> chunks, err |-> NoErr, looked |-> looked]
    ELSE
    LET r == PrintObj(st, list[i], i = failAt)
    IN  IF r.err # NoErr
        THEN [objs |-> r.objs, chunks |-> chunks \o r.chunks, err |-> r.err,
              looked |-> looked \cup r.looked]
        ELSE PrintObjsFrom(r.objs, list, i + 1, failAt, chunks \o r.chunks,
                           looked \cup r.looked)

PrintObjs(st, list, failAt) == PrintObjsFrom(st, list, 1, failAt, <<>>, {})

ObjLists == UNION {[1..n -> ObjIds] : n \in 0..MaxObjs}

Msgs == {"m1", "m2"}

----------------------------------------------------------------------------
\* The record of a helper call: the operation, its argument (a message or
\* a list of objects), the writer and line of a text call, the error
\* returned, the objects looked up, and the objects and streams before it.
NoCall(st) == [op |-> "none", arg |-> <<>>, writer |-> "none", line |-> <<>>,
               err |-> NoErr, looked |-> {}, before |-> st,
               outBefore |-> <<>>, errBefore |-> <<>>]

HelperInit ==
    /\ hpc = "new"
    /\ dryRun = FALSE
    /\ output = FALSE
    /\ wait = FALSE
    /\ strBuilder = <<>>
    /\ outWriter = <<>>
    /\ errWriter = <<>>
    /\ objs \in InitObjs
    /\ last = NoCall(objs)
    /\ ncalls = 0
    /\ waited = FALSE

Construct ==
    /\ hpc = "new"
    /\ \E d \in BoolFlagCases, o \in StringFlagCases, w \in BoolFlagCases :
         LET h == NewCommandHelper(MkCmd(d, o, w))
         IN  IF h.err # NoErr
             THEN /\ hpc' = "failed"
                  /\ UNCHANGED <<dryRun, output, wait>>
             ELSE /\ hpc' = "ready"
                  /\ dryRun' = h.dryRun
                  /\ output' = h.output
                  /\ wait' = h.wait
    /\ UNCHANGED <<strBuilder, outWriter, errWriter, objs, last, ncalls, waited>>
    /\ UNCHANGED pvars

CanCall == hpc = "ready" /\ ncalls < MaxCalls

\* Write one text chunk to the named writer.
WriteText(w, line) ==
    /\ outWriter' = IF w = "out" THEN Append(outWriter, TextChunk(line))
                    ELSE outWriter
    /\ errWriter' = IF w = "err" THEN Append(errWriter, TextChunk(line))
                    ELSE errWriter

TextCall(op, w, m, line) ==
    /\ WriteText(w, line)
    /\ last' = [op |-> op, arg |-> <<m>>, writer |-> w, line |-> line,
                err |-> NoErr, looked |-> {}, before |-> objs,
                outBefore |-> outWriter, errBefore |-> errWriter]
    /\ ncalls' = ncalls + 1
    /\ UNCHANGED <<hpc, dryRun, output, wait, strBuilder, objs, waited>>
    /\ UNCHANGED pvars

CallPrintResult ==
    /\ CanCall
    /\ \E m \in Msgs : TextCall("PrintResult", OutOrDiscardWriter, m, printDryRun(m))

CallPrintStatus ==
    /\ CanCall
    /\ \E m \in Msgs : TextCall("PrintStatus", OutOrErrWriter, m, printDryRun(m))

CallPrintlnf ==
    /\ CanCall
    /\ \E m \in Msgs : TextCall("Printlnf", OutOrErrWriter, m, PrintlnfText(m))

ObjCall(op, list, r) ==
    /\ objs' = r.objs
    /\ outWriter' = outWriter \o r.chunks
    /\ last' = [op |-> op, arg |-> list, writer |-> "out", line |-> <<>>,
                err |-> r.err, looked |-> r.looked, before |-> objs,
                outBefore |-> outWriter, errBefore |-> errWriter]
    /\ ncalls' = ncalls + 1
    /\ UNCHANGED <<hpc, dryRun, output, wait, strBuilder, errWriter, waited>>
    /\ UNCHANGED pvars

CallPrintObj ==
    /\ CanCall
    /\ \E o \in ObjIds, fails \in BOOLEAN :
         ObjCall("PrintObj", <<o>>, PrintObj(objs, o, fails))

CallPrintObjs ==
    /\ CanCall
    /\ \E list \in ObjLists :
         \E failAt \in 0..Len(list) :
           ObjCall("PrintObjs", list, PrintObjs(objs, list, failAt))

\* The convergence waiter: activated only when ShouldWait() is true.
Wait ==
    /\ hpc = "ready"
    /\ ~waited
    /\ ShouldWait
    /\ waited' = TRUE
    /\ UNCHANGED <<hpc, dryRun, output, wait, strBuilder, outWriter, errWriter,
                   objs, last, ncalls>>
    /\ UNCHANGED pvars

----------------------------------------------------------------------------
\* The cluster builder patch command.

ErrUnknownFlag == "unknown flag"
ErrArgs == "accepts 1 arg(s)"
ErrReadOrder == "read order error"

\* DeclaredFlags with a fault: a dry-run flag is declared, and RunE ignores it.
DeclaredFlagsWithDryRun == {"stack", "store", "order", "dry-run"}

\* The flags the command declares.
DeclaredFlags == {"stack", "store", "order"}

\* cobra.ExactArgs(n)
ExactArgs(n, a) == Len(a) = n

ObjFields == {"metadata.name", "spec.tag", "spec.stack.name",
              "spec.store.name", "spec.order", "status"}

\* A cluster builder as the store holds it.
ClusterBuilder(name, stack, store, order) ==
    [f \in ObjFields |->
        CASE f = "metadata.name"   -> name
          [] f = "spec.tag"        -> "registry/tag"
          [] f = "spec.stack.name" -> stack
          [] f = "spec.store.name" -> store
          [] f = "spec.order"      -> order
          [] OTHER                 -> "Ready"]

Names == {"b1", "b2"}
StackNames == {"s1", "new-stack"}
StoreNames == {"t1", "t2"}
Orders == {"o1", "o2"}
OrderFiles == {"o1.yaml", "o2.yaml", "bad.yaml"}

\* builder.ReadOrder: the order entries of the file, or an error.
ReadOrder(path) ==
    IF path = "o1.yaml" THEN [err |-> NoErr, entries |-> "o1"]
    ELSE IF path = "o2.yaml" THEN [err |-> NoErr, entries |-> "o2"]
    ELSE [err |-> ErrReadOrder, entries |-> ""]

DeepCopy(o) == [f \in DOMAIN o |-> o[f]]

\* k8s.CreatePatch: the merge patch from original to updated, holding the
\* fields that differ; of length zero when none does.
CreatePatch(original, updated) ==
    LET diff == {f \in ObjFields : original[f] # updated[f]}
    IN  [f \in diff |-> updated[f]]

PatchLen(patch) == Cardinality(DOMAIN patch)

\* IsEmptyPatch with a fault: the empty patch is not recognised.
NeverEmptyPatch(patch) == FALSE

\* len(patch) == 0
IsEmptyPatch(patch) == PatchLen(patch) = 0

NothingToPatchLine == <<"nothing to patch", "\n">>
PatchedLine(name) == <<"\"", name, "\" patched\n">>

\* The result of an invocation: remote calls made, Patch payloads, lines
\* written, error returned, the observed object, the object Get returned
\* and the desired copy.
Result(c, p, o, e, obs, obs0, des) ==
    [calls |-> c, payloads |-> p, stdout |-> o, err |-> e, ccb |-> obs,
     ccb0 |-> obs0, patchedCcb |-> des]

\* SetFields with a fault: the stack flag is also written to the store name.
SetFieldsStoreFromStack(o, fl, rd) ==
    LET o1 == IF fl.stack # ""
              THEN [o EXCEPT !["spec.stack.name"] = fl.stack,
                             !["spec.store.name"] = fl.stack]
              ELSE o
        o2 == IF fl.store # "" THEN [o1 EXCEPT !["spec.store.name"] = fl.store]
              ELSE o1
    IN  IF fl.order # "" /\ rd.err = NoErr
        THEN [o2 EXCEPT !["spec.order"] = rd.entries]
        ELSE o2

\* The flag-driven mutation of the desired copy; rd is ReadOrder's result
\* for the order flag.
SetFields(o, fl, rd) ==
    LET o1 == IF fl.stack # "" THEN [o EXCEPT !["spec.stack.name"] = fl.stack]
              ELSE o
        o2 == IF fl.store # "" THEN [o1 EXCEPT !["spec.store.name"] = fl.store]
              ELSE o1
    IN  IF fl.order # "" /\ rd.err = NoErr
        THEN [o2 EXCEPT !["spec.order"] = rd.entries]
        ELSE o2

\* Submit with a fault: the error of the remote Patch is dropped.
SubmitIgnoringError(c1, patch, patchErr, got, des) ==
    Result(Append(c1, "Patch"), <<patch>>,
           <<PatchedLine(got["metadata.name"])>>, NoErr, got, got, des)

\* The remote Patch and the report of its success. patchErr: the error
\* the remote Patch returns.
Submit(c1, patch, patchErr, got, des) ==
    IF patchErr # NoErr
    THEN Result(Append(c1, "Patch"), <<patch>>, <<>>, patchErr, got, got, des)
    ELSE Result(Append(c1, "Patch"), <<patch>>,
                <<PatchedLine(got["metadata.name"])>>, NoErr, got, got, des)

\* After a successful Get: mutate the copy, diff, and maybe submit.
PatchFrom(fl, got, patchErr) ==
    LET rd == IF fl.order # "" THEN ReadOrder(fl.order)
              ELSE [err |-> NoErr, entries |-> ""]
        des == SetFields(DeepCopy(got), fl, rd)
        patch == CreatePatch(got, des)
        c1 == <<"GetClientSet", "Get">>
    IN  IF rd.err # NoErr
        THEN Result(c1, <<>>, <<>>, rd.err, got, got, des)
        ELSE IF IsEmptyPatch(patch)
        THEN Result(c1, <<>>, <<NothingToPatchLine>>, NoErr, got, got, des)
        ELSE Submit(c1, patch, patchErr, got, des)

\* RunE. csErr, getErr, patchErr: the errors the client set provider, Get
\* and Patch return ("" for none); got: the object Get returns for args[0].
RunE(fl, csErr, getErr, got, patchErr) ==
    IF csErr # NoErr
    THEN Result(<<"GetClientSet">>, <<>>, <<>>, csErr, <<>>, <<>>, <<>>)
    ELSE IF getErr # NoErr
    THEN Result(<<"GetClientSet", "Get">>, <<>>, <<>>, getErr, <<>>, <<>>, <<>>)
    ELSE PatchFrom(fl, got, patchErr)

RemoteErrs == {NoErr, "NotFound", "Transport"}

PatchInit ==
    /\ pc = "start"
    /\ args = <<>>
    /\ flagv = [stack |-> "", store |-> "", order |-> ""]
    /\ passed = {}
    /\ calls = <<>>
    /\ payloads = <<>>
    /\ stdout = <<>>
    /\ err = NoErr
    /\ ccb = <<>>
    /\ ccb0 = <<>>
    /\ patchedCcb = <<>>
    /\ env = [csErr |-> NoErr, getErr |-> NoErr, patchErr |-> NoErr]

ArgLists == {<<>>} \cup {<<n>> : n \in Names} \cup {<<"b1", "b2">>}

\* The command line: positional arguments and flags. cobra parses the flags
\* (a flag the command does not declare is an error), validates the
\* arguments, and only then calls RunE.
Invoke ==
    /\ pc = "start"
    /\ \E a \in ArgLists, st \in StackNames \cup {""}, so \in StoreNames \cup {""},
          ord \in OrderFiles \cup {""}, dr \in BOOLEAN :
         /\ args' = a
         /\ flagv' = [stack |-> st, store |-> so, order |-> ord]
         /\ passed' = {n \in {"stack"} : st # ""} \cup {n \in {"store"} : so # ""}
                      \cup {n \in {"order"} : ord # ""}
                      \cup {n \in {"dry-run"} : dr}
    /\ IF ~(passed' \subseteq DeclaredFlags)
       THEN pc' = "done" /\ err' = ErrUnknownFlag
       ELSE IF ~ExactArgs(1, args')
       THEN pc' = "done" /\ err' = ErrArgs
       ELSE pc' = "run" /\ err' = NoErr
    /\ UNCHANGED <<calls, payloads, stdout, ccb, ccb0, patchedCcb, env>>
    /\ UNCHANGED hvars

Run ==
    /\ pc = "run"
    /\ \E csErr \in {NoErr, "Config"}, getErr \in RemoteErrs,
          patchErr \in {NoErr, "Conflict"},
          st \in StackNames, so \in StoreNames, ord \in Orders :
         LET r == RunE(flagv, csErr, getErr,
                       ClusterBuilder(args[1], st, so, ord), patchErr)
         IN  /\ calls' = r.calls
             /\ payloads' = r.payloads
             /\ stdout' = r.stdout
             /\ err' = r.err
             /\ ccb' = r.ccb
             /\ ccb0' = r.ccb0
             /\ patchedCcb' = r.patchedCcb
             /\ env' = [csErr |-> csErr, getErr |-> getErr,
                        patchErr |-> patchErr]
    /\ pc' = "done"
    /\ UNCHANGED <<args, flagv, passed>>
    /\ UNCHANGED hvars

\* The helper NewCommandHelper builds for this command's flags.
PatchCmd == [declared |-> DeclaredFlags, changed |-> passed,
             val |-> [n \in {"dry-run", "output", "wait"} |->
                        IF n = "output" THEN "" ELSE n \in passed]]

Init == HelperInit /\ PatchInit

Next ==
    \/ Construct
    \/ CallPrintObj
    \/ CallPrintObjs
    \/ CallPrintResult
    \/ CallPrintStatus
    \/ CallPrintlnf
    \/ Wait

Spec == Init /\ [][Next]_vars

PatchNext ==
    \/ Invoke
    \/ Run

PatchSpec == Init /\ [][PatchNext]_vars

----------------------------------------------------------------------------
\* Properties.

Range(q) == {q[i] : i \in DOMAIN q}
TextOps == {"PrintResult", "PrintStatus", "Printlnf"}
ObjOps == {"PrintObj", "PrintObjs"}
Written(before, after) == SubSeq(after, Len(before) + 1, Len(after))
IdentitySet(gvk) == gvk[2] # "" /\ gvk[3] # ""

\* C1: for each of the 8 values of {dryRun, wait, output}, ShouldWait() is
\* true exactly for wait = true, dryRun = false, output = false; the waiter
\* is only ever invoked in that mode, so never with dryRun and wait both true.
C1_ShouldWait ==
    hpc = "ready" =>
        /\ ShouldWait = (<<dryRun, wait, output>> = <<FALSE, TRUE, FALSE>>)
        /\ (dryRun /\ wait => ~ShouldWait /\ ~waited)
        /\ (waited => <<dryRun, wait, output>> = <<FALSE, TRUE, FALSE>>)

C1_Witness ==
    hpc = "ready" /\ dryRun /\ wait /\ ~output /\ ncalls = MaxCalls /\ ~waited

\* C4: in output mode outWriter holds only serialized objects: PrintResult
\* writes to neither stream, PrintStatus and Printlnf write their line to
\* errWriter. Out of output mode the three write their line to outWriter
\* and PrintObj/PrintObjs write nothing to either stream.
C4_Routing ==
    LET outNew == Written(last.outBefore, outWriter)
        errNew == Written(last.errBefore, errWriter)
    IN  /\ output => \A i \in DOMAIN outWriter : outWriter[i].kind = "obj"
        /\ output /\ last.op = "PrintResult" => outNew = <<>> /\ errNew = <<>>
        /\ output /\ last.op \in {"PrintStatus", "Printlnf"} =>
             outNew = <<>> /\ errNew = <<TextChunk(last.line)>>
        /\ ~output /\ last.op \in TextOps =>
             outNew = <<TextChunk(last.line)>> /\ errNew = <<>>
        /\ ~output /\ last.op \in ObjOps => outNew = <<>> /\ errNew = <<>>
        /\ ~output => errWriter = <<>>
                      /\ \A i \in DOMAIN outWriter : outWriter[i].kind = "text"

C4_Witness ==
    /\ output
    /\ last.op = "PrintResult"
    /\ Len(outWriter) = 1
    /\ Len(errWriter) = 0
    /\ ncalls = 2

\* C5: the line of every PrintResult and PrintStatus call is the formatted
\* text, then " (dry run)" exactly when dryRun, then one newline, with
\* nothing of an earlier call in it; the line of a Printlnf call is the
\* formatted text and a newline, whatever dryRun is.
C5_Lines ==
    LET suffix == IF dryRun THEN <<" (dry run)">> ELSE <<>>
        new == Written(last.outBefore, outWriter)
               \o Written(last.errBefore, errWriter)
    IN  /\ last.op \in {"PrintResult", "PrintStatus"} =>
             last.line = <<last.arg[1]>> \o suffix \o <<"\n">>
        /\ last.op = "Printlnf" => last.line = <<last.arg[1], "\n">>
        /\ last.op \in TextOps /\ last.writer # "discard" =>
             new = <<[kind |-> "text", data |-> last.line]>>
        /\ strBuilder = <<>>

C5_Witness ==
    /\ dryRun
    /\ ~output
    /\ last.op = "PrintStatus"
    /\ Len(outWriter) = 2
    /\ outWriter[1].data = <<"m1", " (dry run)", "\n">>
    /\ outWriter[2].data = <<"m2", " (dry run)", "\n">>

\* C6: after every PrintObj/PrintObjs call, whatever its outcome, every
\* object has the identity it had before the call; an object whose identity
\* is set is not looked up in the registry, is never refused as of unknown
\* type, and is serialized with its own identity.
C6_IdentityKept ==
    /\ \A o \in ObjIds : objs[o] = last.before[o]
    /\ last.op \in ObjOps =>
         \A o \in last.looked : ~IdentitySet(last.before[o].gvk)
    /\ last.op = "PrintObj" /\ IdentitySet(last.before[last.arg[1]].gvk) =>
         /\ last.err # ErrUnknownType
         /\ output /\ last.err = NoErr =>
              Written(last.outBefore, outWriter)
                = <<[kind |-> "obj",
                     data |-> <<last.arg[1]>> \o last.before[last.arg[1]].gvk]>>
    /\ \A i \in DOMAIN outWriter :
         LET ch == outWriter[i]
         IN  ch.kind = "obj" =>
               LET own == last.before[ch.data[1]].gvk
                   type == last.before[ch.data[1]].type
               IN  SubSeq(ch.data, 2, 4)
                     = IF IdentitySet(own) THEN own ELSE getTypeToGVKLookup[type]

C6_Witness ==
    /\ output
    /\ last.op = "PrintObjs"
    /\ last.arg = <<"a", "c">>
    /\ last.err = NoErr
    /\ Len(Written(last.outBefore, outWriter)) = 2
    /\ last.looked = {"a"}
    /\ objs["a"].gvk[3] = ""

\* C7: in output mode PrintObjs on a list holding an object of empty
\* identity and unregistered type returns the unknown type error and has
\* written nothing to outWriter, wherever the object is in the list (the
\* printer itself not failing).
C7_NoPartialOutput ==
    ( /\ output
      /\ last.op = "PrintObjs"
      /\ last.err # ErrPrint
      /\ \E i \in DOMAIN last.arg :
           /\ NeedsLookup(last.before[last.arg[i]].gvk)
           /\ last.before[last.arg[i]].type \notin KnownTypes )
    => /\ last.err = ErrUnknownType
       /\ outWriter = last.outBefore

GetOk == pc = "done" /\ ccb0 # <<>>
Count(q, x) == Cardinality({i \in DOMAIN q : q[i] = x})

\* C2: whenever the patch between the observed object and its mutated copy
\* is empty (as with no flag set, or every flag equal to the observed
\* value), Patch is not called, the only line written is "nothing to
\* patch", and the command ends without error.
C2_NothingToPatch ==
    LET noop == /\ err # ErrReadOrder
                /\ PatchLen(CreatePatch(ccb0, patchedCcb)) = 0
        same == /\ flagv.stack \in {"", ccb0["spec.stack.name"]}
                /\ flagv.store \in {"", ccb0["spec.store.name"]}
                /\ flagv.order = ""
                   \/ ReadOrder(flagv.order).entries = ccb0["spec.order"]
    IN  GetOk =>
          /\ same => noop
          /\ noop => /\ "Patch" \notin Range(calls)
                     /\ stdout = <<<<"nothing to patch", "\n">>>>
                     /\ err = NoErr

C2_Witness ==
    /\ GetOk
    /\ flagv = [stack |-> "s1", store |-> "t2", order |-> "o1.yaml"]
    /\ stdout = <<<<"nothing to patch", "\n">>>>
    /\ calls = <<"GetClientSet", "Get">>

C8_OnlyFlaggedFields ==
    LET flagOf == [f \in {"spec.stack.name", "spec.store.name", "spec.order"} |->
                     IF f = "spec.stack.name" THEN flagv.stack
                     ELSE IF f = "spec.store.name" THEN flagv.store
                     ELSE flagv.order]
        wanted == [f \in DOMAIN flagOf |->
                     IF f = "spec.order" THEN ReadOrder(flagv.order).entries
                     ELSE flagOf[f]]
        differs == {f \in DOMAIN flagOf : flagOf[f] # "" /\ wanted[f] # ccb0[f]}
    IN  GetOk =>
          /\ ccb = ccb0
          /\ \A f \in ObjFields :
               patchedCcb[f] # ccb0[f] => f \in DOMAIN flagOf /\ flagOf[f] # ""
          /\ \A i \in DOMAIN payloads :
               /\ DOMAIN payloads[i] = differs
               /\ \A f \in differs : payloads[i][f] = wanted[f]
          /\ ( /\ flagv = [stack |-> "new-stack", store |-> "", order |-> ""]
               /\ ccb0["spec.stack.name"] # "new-stack" )
             => /\ calls = <<"GetClientSet", "Get", "Patch">>
                /\ payloads = <<[f \in {"spec.stack.name"} |-> "new-stack"]>>
                /\ err = NoErr => stdout = <<<<"\"", args[1], "\" patched\n">>>>

C8_Witness ==
    /\ GetOk
    /\ flagv = [stack |-> "new-stack", store |-> "", order |-> ""]
    /\ ccb0["spec.stack.name"] = "s1"
    /\ err = NoErr
    /\ stdout = <<<<"\"", "b1", "\" patched\n">>>>

\* C9: a failing remote call ends the invocation with that very error and
\* is not retried: Get and Patch are called at most once; when Get fails,
\* Patch is not called and nothing is written; when Patch fails, the
\* "patched" line is not written.
C9_RemoteErrors ==
    /\ Count(calls, "Get") <= 1
    /\ Count(calls, "Patch") <= 1
    /\ Count(calls, "GetClientSet") <= 1
    /\ pc = "done" /\ calls # <<>> =>
         /\ env.csErr # NoErr =>
              err = env.csErr /\ calls = <<"GetClientSet">> /\ stdout = <<>>
         /\ env.csErr = NoErr /\ env.getErr # NoErr =>
              /\ err = env.getErr
              /\ "Patch" \notin Range(calls)
              /\ stdout = <<>>
         /\ "Patch" \in Range(calls) /\ env.patchErr # NoErr =>
              /\ err = env.patchErr
              /\ stdout = <<>>

C9_Witness ==
    /\ pc = "done"
    /\ calls = <<"GetClientSet", "Get", "Patch">>
    /\ env.patchErr = "Conflict"
    /\ err = "Conflict"
    /\ stdout = <<>>

\* C10: an invocation that ends with a validation error (wrong number of
\* positional arguments, or an order file that cannot be read) has called
\* neither Get nor Patch.
C10_ValidationBeforeRemote ==
    pc = "done" /\ err \in {ErrArgs, ErrReadOrder} =>
        "Get" \notin Range(calls) /\ "Patch" \notin Range(calls)

====
